---- MODULE Spec2Model ----
(***************************************************************************)
(* A model of the entropy-maximising Wordle player                         *)
(* (players/super_wordle_bot.py) and of the game driver that runs it       *)
(* (wordle.py: watch, utils.py: get_feedback).                             *)
(*                                                                         *)
(* A word is a sequence of one-character strings, a feedback pattern a     *)
(* sequence of numbers in {0,1,2}.  Python's None is the string "None"     *)
(* where it marks a consumed letter and the one-element sequence           *)
(* <<"None">> where it stands for a missing word.                          *)
(*                                                                         *)
(* The specifications share the variables:                                 *)
(*   SpecFeedback    applies compute_feedback to every pair of input       *)
(*                   words;                                                *)
(*   SpecDriver      applies compute_feedback, then get_feedback, to every *)
(*                   pair of a smaller set of words;                       *)
(*   SpecLength      applies compute_feedback to words of 4 to 6 letters;  *)
(*   SpecConsistent  applies is_consistent to every pool word and history; *)
(*   SpecEntropy     applies calculate_entropy to every pool word and      *)
(*                   list of candidates;                                   *)
(*   SpecChoice      applies choice to every vocabulary and history;       *)
(*   Spec            runs watch with this player, one loop iteration per   *)
(*                   step;                                                 *)
(*   SpecAnyPlayer   runs watch with a player that may return any word;    *)
(*   SpecStats       calls update_stats on one statistics file.            *)
(***************************************************************************)
EXTENDS Integers, Sequences, FiniteSets, TLC

VARIABLES
    guess_word,      \* compute_feedback / get_feedback: first argument
    solution_word,   \* compute_feedback / get_feedback: second argument
    result,          \* the pattern compute_feedback returned
    vocabulary,      \* choice / watch: the list of valid words
    guesses,         \* choice / watch: the words guessed so far
    feedback,        \* choice / watch: one pattern per guess
    candidate_word,  \* is_consistent: the word tested
    verdict,         \* what is_consistent returned
    best_guess,      \* what choice returned
    secret,          \* watch: the secret word
    outcome,         \* watch: its return value, once it has returned
    log_file,        \* watch: what was appended to the log file
    driver_feedback, \* the pattern get_feedback returned
    entropy_bits,    \* what calculate_entropy returned
    bucket_counts,   \* calculate_entropy: pattern_counts at its return
    stats_file,      \* update_stats: the lines of the statistics file
    calls,           \* the update_stats calls made so far
    wins,            \* those of them with a non-zero outcome
    pc               \* position: "call" before, "done" after; "play" in watch

vars == <<guess_word, solution_word, result, vocabulary, guesses, feedback,
          candidate_word, verdict, best_guess, secret, outcome, log_file,
          driver_feedback, entropy_bits, bucket_counts, stats_file, calls, wins, pc>>

\* the variables of calculate_entropy and of update_stats
entropy_vars == <<entropy_bits, bucket_counts>>
stats_vars == <<stats_file, calls, wins>>

\* their values in the specifications that do not use them
EntropyIdle == entropy_bits = 0 /\ bucket_counts = <<>>
StatsIdle == stats_file = <<>> /\ calls = 0 /\ wins = 0

----------------------------------------------------------------------------
(* Bounds of the input sets.                                               *)

\* number of letters of the alphabet the exhaustive word set is built from
NumLetters == 3

\* longest vocabulary enumerated
MaxVocab == 3

\* longest history enumerated
MaxHist == 5

\* the number of update_stats calls on one file
MaxCalls == 6

----------------------------------------------------------------------------
(* Letters and words.                                                      *)

\* result = [0] * 5, range(5)
WordLen == 5

UpperLetters ==
    <<"A","B","C","D","E","F","G","H","I","J","K","L","M",
      "N","O","P","Q","R","S","T","U","V","W","X","Y","Z">>

LowerLetters ==
    <<"a","b","c","d","e","f","g","h","i","j","k","l","m",
      "n","o","p","q","r","s","t","u","v","w","x","y","z">>

\* the marker of a letter that has been matched
None == "None"

\* a missing word (best_guess = None)
NoneWord == <<"None">>

\* str.lower() on one character
lower_char(c) ==
    IF \E k \in 1..26 : UpperLetters[k] = c
    THEN LowerLetters[CHOOSE k \in 1..26 : UpperLetters[k] = c]
    ELSE c

\* str.lower()
lower(w) == [i \in 1..Len(w) |-> lower_char(w[i])]

\* x in list
In(x, list) == \E j \in 1..Len(list) : list[j] = x

\* list.index(x): the first position holding x
index(list, x) == CHOOSE j \in 1..Len(list) :
    list[j] = x /\ \A k \in 1..(j - 1) : list[k] # x

\* sum(f)
RECURSIVE sum(_)
sum(f) == IF f = <<>> THEN 0 ELSE Head(f) + sum(Tail(f))

----------------------------------------------------------------------------
(* compute_feedback (super_wordle_bot.py)                                  *)

\* what a call that raised IndexError is recorded as
IndexError == <<-1>>

\* the first loop over range(4): the last position is never compared
exact_pass_short(guess, solution) ==
    [result        |-> [i \in 1..WordLen |->
                           IF i < WordLen /\ guess[i] = solution[i] THEN 2 ELSE 0],
     guess_list    |-> [i \in 1..Len(guess) |->
                           IF i < WordLen /\ guess[i] = solution[i] THEN None ELSE guess[i]],
     solution_list |-> [i \in 1..Len(solution) |->
                           IF i < WordLen /\ guess[i] = solution[i] THEN None ELSE solution[i]]]

\* first loop: exact matches among the first 5 positions get 2 and are
\* blanked in both lists, which hold every letter of their word
exact_pass(guess, solution) ==
    [result        |-> [i \in 1..WordLen |-> IF guess[i] = solution[i] THEN 2 ELSE 0],
     guess_list    |-> [i \in 1..Len(guess) |->
                           IF i <= WordLen /\ guess[i] = solution[i] THEN None ELSE guess[i]],
     solution_list |-> [i \in 1..Len(solution) |->
                           IF i <= WordLen /\ guess[i] = solution[i] THEN None ELSE solution[i]]]

\* second loop, from position i on: a letter still in solution_list gets 1
\* and its first occurrence in solution_list is blanked
RECURSIVE present_pass(_, _, _, _)
present_pass(i, guess_list, solution_list, res) ==
    IF i > WordLen THEN res
    ELSE IF guess_list[i] # None /\ In(guess_list[i], solution_list)
         THEN LET match_index == index(solution_list, guess_list[i])
              IN  present_pass(i + 1, guess_list,
                               [solution_list EXCEPT ![match_index] = None],
                               [res EXCEPT ![i] = 1])
         ELSE present_pass(i + 1, guess_list, solution_list, res)

\* the second loop without the blanking of the matched letter
RECURSIVE present_pass_no_removal(_, _, _, _)
present_pass_no_removal(i, guess_list, solution_list, res) ==
    IF i > WordLen THEN res
    ELSE IF guess_list[i] # None /\ In(guess_list[i], solution_list)
         THEN present_pass_no_removal(i + 1, guess_list, solution_list,
                                      [res EXCEPT ![i] = 1])
         ELSE present_pass_no_removal(i + 1, guess_list, solution_list, res)

compute_feedback_no_removal(guess, solution) ==
    LET p == exact_pass(guess, solution)
    IN  present_pass_no_removal(1, p.guess_list, p.solution_list, p.result)

\* a word shorter than 5 letters makes the first loop raise IndexError
compute_feedback(guess, solution) ==
    IF Len(guess) < WordLen \/ Len(solution) < WordLen THEN IndexError
    ELSE LET p == exact_pass(guess, solution)
         IN  present_pass(1, p.guess_list, p.solution_list, p.result)

----------------------------------------------------------------------------
(* get_feedback (utils.py), the driver's feedback                          *)

\* letters[:j] + letters[j+1:]
remove_at(letters, j) ==
    [k \in 1..(Len(letters) - 1) |-> IF k < j THEN letters[k] ELSE letters[k + 1]]

\* ''.join([letter for letter, match in zip(secret, feedback) if not match])
RECURSIVE unmatched(_, _, _)
unmatched(i, word, fb) ==
    IF i > Len(word) THEN <<>>
    ELSE IF fb[i] = 0 THEN <<word[i]>> \o unmatched(i + 1, word, fb)
         ELSE unmatched(i + 1, word, fb)

\* the loop over the almost correct letters, from position i on
RECURSIVE almost_pass(_, _, _, _)
almost_pass(i, guess, letters, fb) ==
    IF i > Len(guess) THEN fb
    ELSE IF fb[i] # 2 /\ In(guess[i], letters)
         THEN LET j == index(letters, guess[i])
              IN  almost_pass(i + 1, guess, remove_at(letters, j), [fb EXCEPT ![i] = 1])
         ELSE almost_pass(i + 1, guess, letters, fb)

\* the loop without the removal of the matched letter
RECURSIVE almost_pass_no_removal(_, _, _, _)
almost_pass_no_removal(i, guess, letters, fb) ==
    IF i > Len(guess) THEN fb
    ELSE IF fb[i] # 2 /\ In(guess[i], letters)
         THEN almost_pass_no_removal(i + 1, guess, letters, [fb EXCEPT ![i] = 1])
         ELSE almost_pass_no_removal(i + 1, guess, letters, fb)

get_feedback_no_removal(guess_in, secret_in) ==
    LET guess == lower(guess_in)
        sec   == lower(secret_in)
        n     == Len(guess)
        fb    == [i \in 1..n |-> IF guess[i] = sec[i] THEN 2 ELSE 0]
    IN  almost_pass_no_removal(1, guess, unmatched(1, sec, fb), fb)

\* defined for strings of equal length (anything else raises)
get_feedback(guess_in, secret_in) ==
    LET guess == lower(guess_in)
        sec   == lower(secret_in)
        n     == Len(guess)
        fb    == [i \in 1..n |-> IF guess[i] = sec[i] THEN 2 ELSE 0]
    IN  almost_pass(1, guess, unmatched(1, sec, fb), fb)

----------------------------------------------------------------------------
(* is_consistent (super_wordle_bot.py)                                     *)

\* the loop over enumerate(guesses), from position i on: False at the first
\* guess whose hypothetical feedback differs from the recorded one
RECURSIVE consistent_from(_, _, _, _)
consistent_from(i, candidate, gs, fbs) ==
    IF i > Len(gs) THEN TRUE
    ELSE LET hypothetical_feedback == compute_feedback(gs[i], candidate)
         IN  IF hypothetical_feedback # fbs[i] THEN FALSE
             ELSE consistent_from(i + 1, candidate, gs, fbs)

\* a filter that looks at the latest guess only
is_consistent_last_only(candidate, gs, fbs) ==
    gs = <<>> \/ compute_feedback(gs[Len(gs)], candidate) = fbs[Len(gs)]

is_consistent(candidate, gs, fbs) == consistent_from(1, candidate, gs, fbs)

----------------------------------------------------------------------------
(* calculate_entropy (super_wordle_bot.py)                                 *)
(* Entropy is kept in millionths of a bit: a float is replaced by the      *)
(* integer nearest below its value times 10^6.                             *)

\* math.log2(k) for k = 1..10, in millionths
Log2Micro == <<0, 1000000, 1584962, 2000000, 2321928,
               2584962, 2807354, 3000000, 3169925, 3321928>>

\* the loop over possible_solutions with the increment left out: every
\* pattern keeps the count 1
RECURSIVE pattern_count_loop_no_increment(_, _, _, _)
pattern_count_loop_no_increment(k, guess, possible_solutions, counts) ==
    IF k > Len(possible_solutions) THEN counts
    ELSE LET pattern == compute_feedback(guess, possible_solutions[k])
         IN  pattern_count_loop_no_increment(k + 1, guess, possible_solutions,
                                             (pattern :> 1) @@ counts)

\* the loop over possible_solutions, from the k-th on: a pattern not yet
\* in the dictionary enters it with 0, then its count goes up by one
RECURSIVE pattern_count_loop(_, _, _, _)
pattern_count_loop(k, guess, possible_solutions, counts) ==
    IF k > Len(possible_solutions) THEN counts
    ELSE LET pattern == compute_feedback(guess, possible_solutions[k])
             entered == IF pattern \notin DOMAIN counts
                        THEN (pattern :> 0) @@ counts
                        ELSE counts
         IN  pattern_count_loop(k + 1, guess, possible_solutions,
                                [entered EXCEPT ![pattern] = @ + 1])

\* pattern_counts: the patterns guess_word gets over possible_solutions,
\* each with the number of solutions that give it
pattern_counts(guess, possible_solutions) ==
    pattern_count_loop(1, guess, possible_solutions, <<>>)

\* probability * math.log2(probability), negated, for probability = count / total
entropy_term(count, total) == (count * (Log2Micro[total] - Log2Micro[count])) \div total

\* the loop over pattern_counts.values()
RECURSIVE entropy_sum(_, _, _)
entropy_sum(counts, keys, total) ==
    IF keys = {} THEN 0
    ELSE LET p == CHOOSE q \in keys : TRUE
         IN  entropy_term(counts[p], total) + entropy_sum(counts, keys \ {p}, total)

calculate_entropy(guess, possible_solutions) ==
    LET counts == pattern_counts(guess, possible_solutions)
        total  == Len(possible_solutions)
    IN  entropy_sum(counts, DOMAIN counts, total)

----------------------------------------------------------------------------
(* choice (super_wordle_bot.py)                                            *)

\* the fixed first guess
SOARE == <<"S","O","A","R","E">>

\* [word for word in vocabulary if is_consistent(word, guesses, feedback)]
possible_solutions_of(vocab, gs, fbs) ==
    SelectSeq(vocab, LAMBDA word : is_consistent(word, gs, fbs))

\* scoring the whole vocabulary on every turn
candidate_guesses_always_vocabulary(vocab, gs, fbs) == vocab

\* the words that are scored
candidate_guesses_of(vocab, gs, fbs) ==
    IF Len(gs) < 5 THEN vocab ELSE possible_solutions_of(vocab, gs, fbs)

\* the scoring loop with >= for >: the last of the best words wins
RECURSIVE scoring_loop_ge(_, _, _, _, _)
scoring_loop_ge(i, candidate_guesses, possible_solutions, best, best_entropy) ==
    IF i > Len(candidate_guesses) THEN best
    ELSE LET candidate == candidate_guesses[i]
             entropy   == calculate_entropy(candidate, possible_solutions)
         IN  IF entropy >= best_entropy
             THEN scoring_loop_ge(i + 1, candidate_guesses, possible_solutions,
                                  candidate, entropy)
             ELSE scoring_loop_ge(i + 1, candidate_guesses, possible_solutions,
                                  best, best_entropy)

\* the scoring loop that never records the best entropy: the last word
\* of the list wins
RECURSIVE scoring_loop_no_record(_, _, _, _, _)
scoring_loop_no_record(i, candidate_guesses, possible_solutions, best, best_entropy) ==
    IF i > Len(candidate_guesses) THEN best
    ELSE LET candidate == candidate_guesses[i]
             entropy   == calculate_entropy(candidate, possible_solutions)
         IN  IF entropy > best_entropy
             THEN scoring_loop_no_record(i + 1, candidate_guesses, possible_solutions,
                                         candidate, best_entropy)
             ELSE scoring_loop_no_record(i + 1, candidate_guesses, possible_solutions,
                                         best, best_entropy)

\* the scoring loop from position i on, with the best word and entropy so far
RECURSIVE scoring_loop(_, _, _, _, _)
scoring_loop(i, candidate_guesses, possible_solutions, best, best_entropy) ==
    IF i > Len(candidate_guesses) THEN best
    ELSE LET candidate == candidate_guesses[i]
             entropy   == calculate_entropy(candidate, possible_solutions)
         IN  IF entropy > best_entropy
             THEN scoring_loop(i + 1, candidate_guesses, possible_solutions,
                               candidate, entropy)
             ELSE scoring_loop(i + 1, candidate_guesses, possible_solutions,
                               best, best_entropy)

\* choice without the return of a single remaining solution
choice_always_scoring(vocab, gs, fbs) ==
    IF gs = <<>> THEN SOARE
    ELSE scoring_loop(1, candidate_guesses_of(vocab, gs, fbs),
                      possible_solutions_of(vocab, gs, fbs), NoneWord, -1000000)

\* choice that scores the vocabulary for the first guess too
choice_scored_opening(vocab, gs, fbs) ==
    LET possible_solutions == possible_solutions_of(vocab, gs, fbs)
    IN  IF Len(possible_solutions) = 1 THEN possible_solutions[1]
        ELSE scoring_loop(1, candidate_guesses_of(vocab, gs, fbs),
                          possible_solutions, NoneWord, -1000000)

\* what choice returns: a word, or NoneWord when nothing was scored
choice(vocab, gs, fbs) ==
    IF gs = <<>> THEN SOARE
    ELSE LET possible_solutions == possible_solutions_of(vocab, gs, fbs)
         IN  IF Len(possible_solutions) = 1 THEN possible_solutions[1]
             ELSE scoring_loop(1, candidate_guesses_of(vocab, gs, fbs),
                               possible_solutions, NoneWord, -1000000)

----------------------------------------------------------------------------
(* Input sets.                                                             *)

Alphabet == {UpperLetters[k] : k \in 1..NumLetters}

ROBOT == <<"R","O","B","O","T">>
BOUND == <<"B","O","U","N","D">>
ADIEU == <<"A","D","I","E","U">>
DIALS == <<"D","I","A","L","S">>

\* every word over Alphabet, and the words of the examples in utils.test
InputWords == [1..WordLen -> Alphabet] \cup {ROBOT, BOUND, ADIEU, DIALS}

----------------------------------------------------------------------------
(* SpecFeedback: compute_feedback applied to every pair of input words.    *)

InitFeedback ==
    /\ guess_word \in InputWords
    /\ solution_word \in InputWords
    /\ result = <<>>
    /\ vocabulary = <<>>
    /\ guesses = <<>>
    /\ feedback = <<>>
    /\ candidate_word = <<>>
    /\ verdict = FALSE
    /\ best_guess = <<>>
    /\ secret = <<>>
    /\ outcome = 0
    /\ log_file = <<>>
    /\ driver_feedback = <<>>
    /\ EntropyIdle
    /\ StatsIdle
    /\ pc = "call"

ComputeFeedback ==
    /\ pc = "call"
    /\ result' = compute_feedback(guess_word, solution_word)
    /\ pc' = "done"
    /\ UNCHANGED <<guess_word, solution_word, vocabulary, guesses, feedback,
                   candidate_word, verdict, best_guess, secret, outcome, log_file,
                   driver_feedback, entropy_vars, stats_vars>>

NextFeedback == ComputeFeedback

SpecFeedback == InitFeedback /\ [][NextFeedback]_vars

----------------------------------------------------------------------------
(* C1.  compute_feedback returns a 5-element list over {0,1,2} equal to    *)
(* the two-pass multiset reference: position i is 2 iff the letters at i   *)
(* are equal; otherwise 1 iff the letter guess[i] occurs among the         *)
(* solution positions that are not exact matches more often than among    *)
(* the earlier non-exact guess positions; otherwise 0.  So ROBOT against   *)
(* BOUND gives [0,2,1,0,0] and ADIEU against DIALS gives [1,1,1,0,0].      *)

\* occurrences of guess[i] among the solution positions that are not exact
unmatched_in_solution(guess, solution, i) ==
    Cardinality({k \in 1..WordLen : solution[k] = guess[i] /\ guess[k] # solution[k]})

\* earlier non-exact guess positions holding the letter guess[i]
earlier_in_guess(guess, solution, i) ==
    Cardinality({j \in 1..(i - 1) : guess[j] = guess[i] /\ guess[j] # solution[j]})

reference_feedback(guess, solution) ==
    [i \in 1..WordLen |->
        IF guess[i] = solution[i] THEN 2
        ELSE IF unmatched_in_solution(guess, solution, i) > earlier_in_guess(guess, solution, i)
             THEN 1 ELSE 0]

C1_FeedbackIsReference ==
    pc = "done" =>
        /\ result \in [1..WordLen -> {0, 1, 2}]
        /\ result = reference_feedback(guess_word, solution_word)
        /\ (guess_word = ROBOT /\ solution_word = BOUND => result = <<0, 2, 1, 0, 0>>)
        /\ (guess_word = ADIEU /\ solution_word = DIALS => result = <<1, 1, 1, 0, 0>>)

\* the guess holds O twice, the solution once and at an exact position:
\* the later O gets 0
C1_Witness ==
    /\ pc = "done"
    /\ guess_word = ROBOT
    /\ solution_word = BOUND
    /\ result = <<0, 2, 1, 0, 0>>

----------------------------------------------------------------------------
(* SpecLength: compute_feedback applied to words of 4, 5 and 6 letters.    *)

LengthWords == UNION {[1..n -> {"A", "B"}] : n \in 4..6}

InitLength ==
    /\ guess_word \in LengthWords
    /\ solution_word \in LengthWords
    /\ result = <<>>
    /\ driver_feedback = <<>>
    /\ vocabulary = <<>>
    /\ guesses = <<>>
    /\ feedback = <<>>
    /\ candidate_word = <<>>
    /\ verdict = FALSE
    /\ best_guess = <<>>
    /\ secret = <<>>
    /\ outcome = 0
    /\ log_file = <<>>
    /\ EntropyIdle
    /\ StatsIdle
    /\ pc = "call"

NextLength == ComputeFeedback

SpecLength == InitLength /\ [][NextLength]_vars

(* C12.  A guess and a solution of different lengths are reported as an    *)
(* error before any pattern is computed: compute_feedback never returns a *)
(* pattern for them.                                                       *)
C12_LengthMismatchIsAnError ==
    (pc = "done" /\ Len(guess_word) # Len(solution_word)) => result = IndexError

----------------------------------------------------------------------------
(* SpecDriver: compute_feedback, then the driver's get_feedback, applied   *)
(* to every pair of words over an alphabet one letter shorter (each pair   *)
(* takes two steps here), in upper and in lower case.                      *)

robot == <<"r","o","b","o","t">>
bound == <<"b","o","u","n","d">>

DriverWords ==
    [1..WordLen -> {UpperLetters[k] : k \in 1..(NumLetters - 1)}]
        \cup {ROBOT, BOUND, ADIEU, DIALS, robot, bound}

InitDriver ==
    /\ guess_word \in DriverWords
    /\ solution_word \in DriverWords
    /\ result = <<>>
    /\ driver_feedback = <<>>
    /\ vocabulary = <<>>
    /\ guesses = <<>>
    /\ feedback = <<>>
    /\ candidate_word = <<>>
    /\ verdict = FALSE
    /\ best_guess = <<>>
    /\ secret = <<>>
    /\ outcome = 0
    /\ log_file = <<>>
    /\ EntropyIdle
    /\ StatsIdle
    /\ pc = "call"

\* the driver's get_feedback on the same two words
GetFeedback ==
    /\ pc = "done"
    /\ driver_feedback' = get_feedback(guess_word, solution_word)
    /\ pc' = "compared"
    /\ UNCHANGED <<guess_word, solution_word, result, vocabulary, guesses, feedback,
                   candidate_word, verdict, best_guess, secret, outcome, log_file,
                   entropy_vars, stats_vars>>

NextDriver == ComputeFeedback \/ GetFeedback

SpecDriver == InitDriver /\ [][NextDriver]_vars

----------------------------------------------------------------------------
(* Claims about the two feedback functions, checked under SpecDriver.      *)

\* every letter of w is an upper case letter
is_upper(w) == \A i \in 1..Len(w) : \E k \in 1..26 : UpperLetters[k] = w[i]

\* every letter of w is a lower case letter
is_lower(w) == \A i \in 1..Len(w) : \E k \in 1..26 : LowerLetters[k] = w[i]

\* the two words are written in the same case
same_case(g, s) == (is_upper(g) /\ is_upper(s)) \/ (is_lower(g) /\ is_lower(s))

(* C11.  compute_feedback(g, s) sums to 10 if and only if g = s; for the   *)
(* upper case words of a game the driver's win test sum(f) = 10 on         *)
(* get_feedback holds exactly when the guess is the secret.                *)
C11_AllExactIffEqual ==
    /\ pc \in {"done", "compared"} =>
          (sum(result) = 5 * 2 <=> guess_word = solution_word)
    /\ (pc = "compared" /\ is_upper(guess_word) /\ is_upper(solution_word)) =>
          (sum(driver_feedback) = 5 * 2 <=> guess_word = solution_word)

\* a word with a repeated letter against itself
C11_Witness ==
    /\ pc = "compared"
    /\ guess_word = <<"A","B","A","A","B">>
    /\ solution_word = guess_word
    /\ sum(result) = 10
    /\ sum(driver_feedback) = 10

(* C16.  get_feedback and compute_feedback return the same pattern for     *)
(* every pair of 5-letter words written in the same case.                  *)
C16_DriverAndPlayerAgree ==
    (pc = "compared" /\ same_case(guess_word, solution_word)) =>
        result = driver_feedback

\* two lower case words, the guess with a repeated letter
C16_Witness ==
    /\ pc = "compared"
    /\ guess_word = robot
    /\ solution_word = bound
    /\ result = <<0, 2, 1, 0, 0>>
    /\ driver_feedback = <<0, 2, 1, 0, 0>>

----------------------------------------------------------------------------
(* Inputs of is_consistent and choice.                                     *)

BBACD == <<"B","B","A","C","D">>
CDABC == <<"C","D","A","B","C">>
DDDDD == <<"D","D","D","D","D">>

\* the words vocabularies are made of.  BBACD against CDABC has a repeated
\* letter of which the solution holds one; DDDDD tells BBACD from CDABC.
WordPool == {SOARE, BBACD, CDABC, DDDDD}

\* the sequences over S of length at most n
SeqUpTo(S, n) == UNION {[1..k -> S] : k \in 0..n}

\* every list of pool words, repetitions included, the empty list too
Vocabularies == SeqUpTo(WordPool, MaxVocab)

\* the (guess, feedback) pairs histories are made of: of the pool words the
\* first leaves BBACD and CDABC possible, the second CDABC only
HistoryEntries ==
    { <<SOARE, <<0, 0, 2, 0, 0>> >>,
      <<BBACD, <<1, 0, 2, 1, 1>> >> }

Histories == SeqUpTo(HistoryEntries, MaxHist)

guesses_of(h) == [i \in 1..Len(h) |-> h[i][1]]
feedback_of(h) == [i \in 1..Len(h) |-> h[i][2]]

----------------------------------------------------------------------------
(* SpecConsistent: is_consistent applied to every pool word and history.   *)

InitConsistent ==
    /\ candidate_word \in WordPool
    /\ \E h \in Histories :
          /\ guesses = guesses_of(h)
          /\ feedback = feedback_of(h)
    /\ verdict = FALSE
    /\ vocabulary = <<>>
    /\ guess_word = <<>>
    /\ solution_word = <<>>
    /\ result = <<>>
    /\ best_guess = <<>>
    /\ secret = <<>>
    /\ outcome = 0
    /\ log_file = <<>>
    /\ driver_feedback = <<>>
    /\ EntropyIdle
    /\ StatsIdle
    /\ pc = "call"

IsConsistent ==
    /\ pc = "call"
    /\ verdict' = is_consistent(candidate_word, guesses, feedback)
    /\ pc' = "done"
    /\ UNCHANGED <<guess_word, solution_word, result, vocabulary, guesses, feedback,
                   candidate_word, best_guess, secret, outcome, log_file,
                   driver_feedback, entropy_vars, stats_vars>>

NextConsistent == IsConsistent

SpecConsistent == InitConsistent /\ [][NextConsistent]_vars

----------------------------------------------------------------------------
(* C4.  is_consistent(c, guesses, feedback) is true if and only if         *)
(* compute_feedback(guesses[i], c) equals feedback[i] for every i; it is   *)
(* true for the empty history.                                             *)

C4_ConsistentIffAllMatch ==
    pc = "done" =>
        /\ verdict = (\A i \in 1..Len(guesses) :
                         compute_feedback(guesses[i], candidate_word) = feedback[i])
        /\ (guesses = <<>> => verdict = TRUE)

\* a candidate that gives the first recorded pattern and not a later one
C4_Witness ==
    /\ pc = "done"
    /\ Len(guesses) >= 2
    /\ compute_feedback(guesses[1], candidate_word) = feedback[1]
    /\ compute_feedback(guesses[Len(guesses)], candidate_word) = feedback[Len(guesses)]
    /\ \E i \in 1..Len(guesses) : compute_feedback(guesses[i], candidate_word) # feedback[i]
    /\ verdict = FALSE

----------------------------------------------------------------------------
(* SpecEntropy: calculate_entropy applied to every pool word and every     *)
(* list of pool words; vocabulary holds the list possible_solutions.       *)

InitEntropy ==
    /\ guess_word \in WordPool
    /\ vocabulary \in Vocabularies
    /\ solution_word = <<>>
    /\ result = <<>>
    /\ driver_feedback = <<>>
    /\ guesses = <<>>
    /\ feedback = <<>>
    /\ candidate_word = <<>>
    /\ verdict = FALSE
    /\ best_guess = <<>>
    /\ secret = <<>>
    /\ outcome = 0
    /\ log_file = <<>>
    /\ EntropyIdle
    /\ StatsIdle
    /\ pc = "call"

CalculateEntropy ==
    /\ pc = "call"
    /\ bucket_counts' = pattern_counts(guess_word, vocabulary)
    /\ entropy_bits' = calculate_entropy(guess_word, vocabulary)
    /\ pc' = "done"
    /\ UNCHANGED <<guess_word, solution_word, result, vocabulary, guesses, feedback,
                   candidate_word, verdict, best_guess, secret, outcome, log_file,
                   driver_feedback, stats_vars>>

NextEntropy == CalculateEntropy

SpecEntropy == InitEntropy /\ [][NextEntropy]_vars

\* the counts of a histogram added up
RECURSIVE count_total(_, _)
count_total(counts, keys) ==
    IF keys = {} THEN 0
    ELSE LET p == CHOOSE q \in keys : TRUE
         IN  counts[p] + count_total(counts, keys \ {p})

(* C14.  The histogram calculate_entropy builds has positive counts only   *)
(* and they add up to the number of candidates; with exactly one candidate *)
(* it is one bucket of count 1 and the entropy returned is exactly 0, for  *)
(* every guess.                                                            *)
C14_HistogramAndSingleCandidate ==
    pc = "done" =>
        /\ \A p \in DOMAIN bucket_counts : bucket_counts[p] > 0
        /\ count_total(bucket_counts, DOMAIN bucket_counts) = Len(vocabulary)
        /\ Len(vocabulary) = 1 =>
              /\ Cardinality(DOMAIN bucket_counts) = 1
              /\ \A p \in DOMAIN bucket_counts : bucket_counts[p] = 1
              /\ entropy_bits = 0

C14_Witness ==
    /\ pc = "done"
    /\ guess_word = SOARE
    /\ vocabulary = <<BBACD>>
    /\ bucket_counts = (<<0, 0, 2, 0, 0>> :> 1)
    /\ entropy_bits = 0

----------------------------------------------------------------------------
(* SpecChoice: choice applied to every vocabulary and history.             *)

InitChoice ==
    /\ vocabulary \in Vocabularies
    /\ \E h \in Histories :
          /\ guesses = guesses_of(h)
          /\ feedback = feedback_of(h)
    /\ best_guess = <<>>
    /\ candidate_word = <<>>
    /\ verdict = FALSE
    /\ guess_word = <<>>
    /\ solution_word = <<>>
    /\ result = <<>>
    /\ secret = <<>>
    /\ outcome = 0
    /\ log_file = <<>>
    /\ driver_feedback = <<>>
    /\ EntropyIdle
    /\ StatsIdle
    /\ pc = "call"

Choice ==
    /\ pc = "call"
    /\ best_guess' = choice(vocabulary, guesses, feedback)
    /\ pc' = "done"
    /\ UNCHANGED <<guess_word, solution_word, result, vocabulary, guesses, feedback,
                   candidate_word, verdict, secret, outcome, log_file,
                   driver_feedback, entropy_vars, stats_vars>>

NextChoice == Choice

SpecChoice == InitChoice /\ [][NextChoice]_vars

----------------------------------------------------------------------------
(* Claims about choice, checked under SpecChoice.                          *)

\* the positions of the vocabulary entries consistent with the history
consistent_entries == {k \in 1..Len(vocabulary) : is_consistent(vocabulary[k], guesses, feedback)}

\* the list choice filters from the vocabulary
possible == possible_solutions_of(vocabulary, guesses, feedback)

\* the list choice scores, by the rule of the specification
pool == IF Len(guesses) < 5 THEN vocabulary ELSE possible

\* the entropy of word w over the consistent candidates
score(w) == calculate_entropy(w, possible)

(* C2.  choice returns a member of the vocabulary it was given, for every  *)
(* (non-empty) vocabulary and every history.                               *)
C2_ReturnsVocabularyWord ==
    (pc = "done" /\ vocabulary # <<>>) => In(best_guess, vocabulary)

(* C3.  With a non-empty history that no vocabulary word is consistent     *)
(* with, choice raises an error: it returns neither a word nor None.       *)
C3_EmptySolutionSpaceIsAnError ==
    (pc = "done" /\ guesses # <<>> /\ consistent_entries = {}) =>
        (best_guess # NoneWord /\ ~In(best_guess, vocabulary))

(* C13.  With an empty vocabulary choice reports an error, whether the     *)
(* history is empty or not: it returns neither a word nor None.            *)
C13_EmptyVocabularyIsAnError ==
    (pc = "done" /\ vocabulary = <<>>) => best_guess \notin (WordPool \cup {NoneWord})

(* C7.  With at least two candidates left, choice scores the whole         *)
(* vocabulary while fewer than 5 guesses have been made and the consistent *)
(* candidates only from 5 guesses on: the word returned has the greatest   *)
(* entropy of that list, and with 5 guesses it is consistent with the      *)
(* whole history.                                                          *)
C7_PoolSwitch ==
    (pc = "done" /\ guesses # <<>>) =>
        LET p    == possible
            best == calculate_entropy(best_guess, p)
        IN  Len(p) >= 2 =>
              /\ Len(guesses) < 5 =>
                    /\ In(best_guess, vocabulary)
                    /\ \A k \in 1..Len(vocabulary) :
                          calculate_entropy(vocabulary[k], p) <= best
              /\ Len(guesses) >= 5 =>
                    /\ In(best_guess, p)
                    /\ is_consistent(best_guess, guesses, feedback)
                    /\ \A k \in 1..Len(p) : calculate_entropy(p[k], p) <= best

\* on the final turn a word that is not consistent comes first in the
\* vocabulary and scores at least as much as the word returned
C7_Witness ==
    /\ pc = "done"
    /\ Len(guesses) = 5
    /\ Len(possible) >= 2
    /\ ~is_consistent(vocabulary[1], guesses, feedback)
    /\ score(vocabulary[1]) >= score(best_guess)
    /\ is_consistent(best_guess, guesses, feedback)

(* C8.  When it scores, choice returns the first word of the scored list,  *)
(* in the order given, whose entropy is the greatest of the list: a later  *)
(* word replaces the best one only when its entropy is strictly greater.   *)
C8_FirstMaximum ==
    (pc = "done" /\ guesses # <<>>) =>
        LET p      == possible
            scored == IF Len(guesses) < 5 THEN vocabulary ELSE p
            scores == [j \in 1..Len(scored) |-> calculate_entropy(scored[j], p)]
        IN  (Len(p) # 1 /\ scored # <<>>) =>
              \E k \in 1..Len(scored) :
                  /\ best_guess = scored[k]
                  /\ \A j \in 1..Len(scored) : scores[j] <= scores[k]
                  /\ \A j \in 1..(k - 1) : scores[j] < scores[k]

\* the word returned is not the first of the list, and a later, different
\* word has the same entropy
C8_Witness ==
    /\ pc = "done"
    /\ guesses # <<>>
    /\ Len(possible) >= 2
    /\ best_guess # pool[1]
    /\ score(pool[1]) < score(best_guess)
    /\ \E j \in 1..Len(pool) :
          /\ pool[j] # best_guess
          /\ score(pool[j]) = score(best_guess)
          /\ \E k \in 1..(j - 1) : pool[k] = best_guess

(* C9.  With a non-empty history and exactly one vocabulary entry          *)
(* consistent with it, choice returns that entry, on every turn.           *)
C9_SingleCandidateReturned ==
    (pc = "done" /\ guesses # <<>> /\ Cardinality(consistent_entries) = 1) =>
        \A k \in consistent_entries : best_guess = vocabulary[k]

\* the single candidate is not the first vocabulary word, which is what
\* scoring would return (every entropy over one candidate is 0)
C9_Witness ==
    /\ pc = "done"
    /\ guesses # <<>>
    /\ Len(guesses) < 5
    /\ Cardinality(consistent_entries) = 1
    /\ Len(vocabulary) >= 2
    /\ ~is_consistent(vocabulary[1], guesses, feedback)
    /\ score(vocabulary[1]) = score(best_guess)
    /\ best_guess # vocabulary[1]

C17_GuessSplitsCandidates ==
    (pc = "done" /\ guesses # <<>>) =>
        LET p     == possible
            words == {p[k] : k \in 1..Len(p)}
        IN  Cardinality(words) >= 2 =>
              /\ Cardinality({compute_feedback(best_guess, s) : s \in words}) >= 2
              /\ ~In(best_guess, guesses)
              /\ \A s \in words :
                    LET after == possible_solutions_of(vocabulary,
                                     Append(guesses, best_guess),
                                     Append(feedback, compute_feedback(best_guess, s)))
                    IN  /\ Len(after) < Len(p)
                        /\ {after[k] : k \in 1..Len(after)} \subseteq words
                        /\ {after[k] : k \in 1..Len(after)} # words

\* the vocabulary holds the word of the history, scored first, and the
\* two words consistent with it
C17_Witness ==
    /\ pc = "done"
    /\ guesses = <<SOARE>>
    /\ vocabulary = <<SOARE, BBACD, CDABC>>
    /\ possible = <<BBACD, CDABC>>
    /\ score(SOARE) = 0
    /\ best_guess = BBACD

----------------------------------------------------------------------------
(* Spec: watch (wordle.py) run with this player, without the display       *)
(* (verbose off); the log file is taken to be writable.                    *)

MAXATTEMPTS == 6

BILLY == <<"B","I","L","L","Y">>
DILLY == <<"D","I","L","L","Y">>
FILLY == <<"F","I","L","L","Y">>
GILLY == <<"G","I","L","L","Y">>
HILLY == <<"H","I","L","L","Y">>
TILLY == <<"T","I","L","L","Y">>
WILLY == <<"W","I","L","L","Y">>

\* a vocabulary with seven words that differ in the first letter only
RhymeVocabulary == <<SOARE, BILLY, DILLY, FILLY, GILLY, HILLY, TILLY, WILLY>>

\* read_words gives at least one word; main copies the list for every game
GameVocabularies == (Vocabularies \ {<<>>}) \cup {RhymeVocabulary}

\* main takes the secret from its own list or from the command line
GameSecrets == WordPool \cup {RhymeVocabulary[k] : k \in 1..Len(RhymeVocabulary)}

Init ==
    /\ vocabulary \in GameVocabularies
    /\ secret \in GameSecrets
    /\ guesses = <<>>
    /\ feedback = <<>>
    /\ outcome = 0
    /\ log_file = <<>>
    /\ best_guess = <<>>
    /\ candidate_word = <<>>
    /\ verdict = FALSE
    /\ guess_word = <<>>
    /\ solution_word = <<>>
    /\ result = <<>>
    /\ driver_feedback = <<>>
    /\ EntropyIdle
    /\ StatsIdle
    /\ pc = "play"

\* the top of the loop body: the log line, the player's guess, the append
AskPlayer(guess) ==
    /\ log_file' = IF Len(guesses) = 2 THEN Append(log_file, guesses[2]) ELSE log_file
    /\ best_guess' = guess
    /\ guesses' = Append(guesses, guess)
    /\ UNCHANGED <<vocabulary, secret, candidate_word, verdict,
                   guess_word, solution_word, result,
                   driver_feedback, entropy_vars, stats_vars>>

\* sum(f) == 5 * 2
win(f) == sum(f) = 5 * 2

\* the test on a seventh guess
last_attempt_seven(gs) == Len(gs) = 7

\* len(guesses) == 6
last_attempt(gs) == Len(gs) = 6

\* the guess is not a vocabulary word: return -1
NotInWordListFor(guess) ==
    /\ AskPlayer(guess)
    /\ ~In(guess, vocabulary)
    /\ outcome' = -1
    /\ pc' = "returned"
    /\ UNCHANGED feedback

\* the feedback is all 2: return the number of guesses
SolvedFor(guess) ==
    /\ AskPlayer(guess)
    /\ In(guess, vocabulary)
    /\ LET f == get_feedback(guess, secret)
       IN  /\ feedback' = Append(feedback, f)
           /\ win(f)
           /\ outcome' = Len(guesses')
           /\ pc' = "returned"

\* the sixth guess is wrong: return 0
OutOfGuessesFor(guess) ==
    /\ AskPlayer(guess)
    /\ In(guess, vocabulary)
    /\ LET f == get_feedback(guess, secret)
       IN  /\ feedback' = Append(feedback, f)
           /\ ~win(f)
           /\ last_attempt(guesses')
           /\ outcome' = 0
           /\ pc' = "returned"

\* a wrong guess before the sixth: next iteration
NewGuessFor(guess) ==
    /\ AskPlayer(guess)
    /\ In(guess, vocabulary)
    /\ LET f == get_feedback(guess, secret)
       IN  /\ feedback' = Append(feedback, f)
           /\ ~win(f)
           /\ ~last_attempt(guesses')
           /\ pc' = "play"
           /\ UNCHANGED outcome

\* the four ways through the loop body when the player is this module
NotInWordList ==
    /\ pc = "play"
    /\ \E guess \in {choice(vocabulary, guesses, feedback)} : NotInWordListFor(guess)

Solved ==
    /\ pc = "play"
    /\ \E guess \in {choice(vocabulary, guesses, feedback)} : SolvedFor(guess)

OutOfGuesses ==
    /\ pc = "play"
    /\ \E guess \in {choice(vocabulary, guesses, feedback)} : OutOfGuessesFor(guess)

NewGuess ==
    /\ pc = "play"
    /\ \E guess \in {choice(vocabulary, guesses, feedback)} : NewGuessFor(guess)

Next == NotInWordList \/ Solved \/ OutOfGuesses \/ NewGuess

Spec == Init /\ [][Next]_vars

----------------------------------------------------------------------------
(* Claims about a game, checked under Spec.                                *)

(* C5.  When the secret is a vocabulary word, it is one of the player's    *)
(* possible_solutions at every turn after the first: it passes             *)
(* is_consistent against the history the driver has recorded.              *)
C5_SecretStaysPossible ==
    (pc = "play" /\ guesses # <<>> /\ In(secret, vocabulary)) =>
        /\ is_consistent(secret, guesses, feedback)
        /\ In(secret, possible_solutions_of(vocabulary, guesses, feedback))

\* a turn after a guess with a repeated letter, of which the secret holds one
C5_Witness ==
    /\ pc = "play"
    /\ Len(guesses) = 2
    /\ In(secret, vocabulary)
    /\ guesses[2] = BBACD
    /\ secret = CDABC
    /\ feedback[2] = <<1, 0, 2, 1, 1>>
    /\ In(secret, possible_solutions_of(vocabulary, guesses, feedback))

----------------------------------------------------------------------------
(* SpecAnyPlayer: watch with a player that may return, at every call, any  *)
(* vocabulary word, the secret, or None.  The player leaves the lists it   *)
(* is handed alone.                                                        *)

\* what player.choice may return
PlayerGuesses == {vocabulary[k] : k \in 1..Len(vocabulary)} \cup {secret, NoneWord}

\* watch only tests membership in the vocabulary: one list per non-empty
\* set of pool words is enough
PoolOrder == <<SOARE, BBACD, CDABC, DDDDD>>

AnyPlayerVocabularies ==
    {v \in Vocabularies \ {<<>>} :
        \A i \in 1..(Len(v) - 1) : index(PoolOrder, v[i]) < index(PoolOrder, v[i + 1])}

InitAnyPlayer ==
    /\ vocabulary \in AnyPlayerVocabularies
    /\ secret \in WordPool
    /\ guesses = <<>>
    /\ feedback = <<>>
    /\ outcome = 0
    /\ log_file = <<>>
    /\ best_guess = <<>>
    /\ candidate_word = <<>>
    /\ verdict = FALSE
    /\ guess_word = <<>>
    /\ solution_word = <<>>
    /\ result = <<>>
    /\ driver_feedback = <<>>
    /\ EntropyIdle
    /\ StatsIdle
    /\ pc = "play"

AnyNotInWordList == pc = "play" /\ \E guess \in PlayerGuesses : NotInWordListFor(guess)

AnySolved == pc = "play" /\ \E guess \in PlayerGuesses : SolvedFor(guess)

AnyOutOfGuesses == pc = "play" /\ \E guess \in PlayerGuesses : OutOfGuessesFor(guess)

AnyNewGuess == pc = "play" /\ \E guess \in PlayerGuesses : NewGuessFor(guess)

NextAnyPlayer == AnyNotInWordList \/ AnySolved \/ AnyOutOfGuesses \/ AnyNewGuess

SpecAnyPlayer == InitAnyPlayer /\ [][NextAnyPlayer]_vars

\* the positions of the guesses equal to the secret
hits == {k \in 1..Len(guesses) : guesses[k] = secret}

----------------------------------------------------------------------------
(* update_stats (utils.py).  A statistics file is the list of its lines,   *)
(* a line the pair of its key and its value; the dictionary stats is the   *)
(* list of its items in insertion order.  The win percentage is kept in    *)
(* thousandths, the three decimals the file holds.                         *)

\* the file that open(file, "r") raises IOError for
NoFile == << <<"IOError">> >>

\* f.read().splitlines(), or [] after IOError
read_lines(file) == IF Len(file) = 1 /\ Len(file[1]) = 1 THEN <<>> ELSE file

keys(stats) == {stats[k][1] : k \in 1..Len(stats)}

\* stats[key]
get(stats, key) == stats[CHOOSE k \in 1..Len(stats) : stats[k][1] = key][2]

\* stats[key] = value
put(stats, key, value) ==
    IF key \in keys(stats)
    THEN [k \in 1..Len(stats) |-> IF stats[k][1] = key THEN <<key, value>> ELSE stats[k]]
    ELSE Append(stats, <<key, value>>)

\* the inner loop reads the whole file again: stat and value are those of
\* its last line when it ends
RECURSIVE load_stats(_, _, _)
load_stats(i, data, stats) ==
    IF i > Len(data) THEN stats
    ELSE LET line == data[Len(data)]
         IN  load_stats(i + 1, data, put(stats, line[1], line[2]))

minstats == <<"played", "win percentage", "current streak", "max streak",
              "guess distribution">>

\* dict.fromkeys(minstats, 0), with six zeros for the guess distribution
reset_stats ==
    [k \in 1..Len(minstats) |->
        IF minstats[k] = "guess distribution"
        THEN <<minstats[k], [i \in 1..6 |-> 0]>>
        ELSE <<minstats[k], 0>>]

\* set(minstats) > set(stats.keys()): the keys read are a proper subset
validate(stats) ==
    IF keys(stats) \subseteq {minstats[k] : k \in 1..Len(minstats)}
       /\ keys(stats) # {minstats[k] : k \in 1..Len(minstats)}
    THEN reset_stats
    ELSE stats

\* sum(...) / played * 100 written with three decimals
win_percentage(won, played) == (2 * 100000 * won + played) \div (2 * played)

\* the changes to the dictionary for one outcome
modify(stats, game) ==
    LET s1 == put(stats, "played", get(stats, "played") + 1)
        s2 == IF game # 0
              THEN LET a == put(s1, "current streak", get(s1, "current streak") + 1)
                       b == IF get(a, "current streak") > get(a, "max streak")
                            THEN put(a, "max streak", get(a, "current streak"))
                            ELSE a
                   IN  put(b, "guess distribution",
                           [get(b, "guess distribution") EXCEPT ![game] = @ + 1])
              ELSE put(s1, "current streak", 0)
    IN  put(s2, "win percentage",
            win_percentage(sum(get(s2, "guess distribution")), get(s2, "played")))

\* the file after update_stats(game, file)
update_stats(game, file) == modify(validate(load_stats(1, read_lines(file), <<>>)), game)

----------------------------------------------------------------------------
(* SpecStats: update_stats called again and again on one file that is      *)
(* missing or empty at first, with the outcomes main passes on (0 to 6).   *)

InitStats ==
    /\ stats_file \in {NoFile, <<>>}
    /\ calls = 0
    /\ wins = 0
    /\ guess_word = <<>>
    /\ solution_word = <<>>
    /\ result = <<>>
    /\ driver_feedback = <<>>
    /\ vocabulary = <<>>
    /\ guesses = <<>>
    /\ feedback = <<>>
    /\ candidate_word = <<>>
    /\ verdict = FALSE
    /\ best_guess = <<>>
    /\ secret = <<>>
    /\ outcome = 0
    /\ log_file = <<>>
    /\ EntropyIdle
    /\ pc = "call"

UpdateStats ==
    /\ calls < MaxCalls
    /\ \E game \in 0..MAXATTEMPTS :
          /\ stats_file' = update_stats(game, stats_file)
          /\ outcome' = game
          /\ calls' = calls + 1
          /\ wins' = IF game # 0 THEN wins + 1 ELSE wins
    /\ UNCHANGED <<guess_word, solution_word, result, vocabulary, guesses, feedback,
                   candidate_word, verdict, best_guess, secret, log_file,
                   driver_feedback, entropy_vars, pc>>

NextStats == UpdateStats

SpecStats == InitStats /\ [][NextStats]_vars

(* C18.  After n calls of update_stats on a file that was missing or empty *)
(* at first, the file's played is n, its guess distribution adds up to the *)
(* number of calls with a non-zero outcome, and its max streak is at least *)
(* its current streak: a call adds a game to what the calls before wrote.  *)
C18_StatsAccumulate ==
    calls > 0 =>
        /\ get(stats_file, "played") = calls
        /\ sum(get(stats_file, "guess distribution")) = wins
        /\ get(stats_file, "max streak") >= get(stats_file, "current streak")

====
